---- MODULE Spec2Model ----
(***************************************************************************)
(* Selective consumption in rabbitmq-signadot-demo/consumer/app.py:        *)
(* the routing-key extractor, the admission decision, the route poller     *)
(* and the receive/ack cycle of SignadotConsumer.                          *)
(*                                                                         *)
(* Text is modelled as a sequence of tokens.  A token is a single          *)
(* character (" ", ",", "=") or an indivisible word ("sd-routing-key",     *)
(* "sbx-42", ...), so that strip, split and comparison work on the same    *)
(* positions as the Python string methods do.                              *)
(***************************************************************************)
EXTENDS Naturals, Sequences, FiniteSets

VARIABLES
    \* ---- SignadotConsumer fields
    is_baseline,          \* self.is_baseline
    sandbox_routing_key,  \* self.sandbox_routing_key (a text, <<>> when unset)
    active_routes,        \* self._active_routes
    routes_lock,          \* holder of self._routes_lock: "none", "poller", "main"
    stop_event,           \* self._stop_event
    \* ---- pika connection / channel as the consumer sees them
    connection_open,      \* self.connection.is_open
    channel_open,         \* self.channel.is_open
    consuming,            \* a consumer callback is registered on the channel
    \* ---- main thread (start -> start_consuming -> _on_message)
    main_pc,              \* position of the main thread
    delivered,            \* number of messages handed to _on_message so far
    msg_key,              \* local msg_key of _should_process
    is_active,            \* local is_active of _should_process
    should,               \* value returned by _should_process: "unset", "true", "false"
    exc,                  \* exception propagating in the main thread, "none" if none
    outcome,              \* what happened to the message of the current/last delivery
    ack_calls,            \* per delivery tag: number of basic_ack calls
    acked,                \* per delivery tag: the broker received the ack
    handled,              \* per delivery tag: number of handle_message invocations
    \* ---- poller thread (update_routes)
    poller_pc,            \* position of the poller thread
    poller_active,        \* local `active` of update_routes
    cycle_start_routes,   \* self._active_routes as it was when the cycle started
    poll_result,          \* how the current/last cycle ended: "none", "ok", "failed"
    installed,            \* the poller has assigned self._active_routes at least once
    \* ---- inputs and results of the pure functions
    in_headers,           \* a metadata map handed to _extract_routing_key
    in_response,          \* a control-plane response handed to one poll cycle
    ex_result,            \* what _extract_routing_key returned for in_headers
    fleet,                \* per instance of a fleet (by its routing key, <<>> the
                          \* baseline): what it did with its copy of the message
    phase                 \* "input" before the function is applied, "output" after

vars == << is_baseline, sandbox_routing_key, active_routes, routes_lock, stop_event,
           connection_open, channel_open, consuming,
           main_pc, delivered, msg_key, is_active, should, exc, outcome,
           ack_calls, acked, handled,
           poller_pc, poller_active, cycle_start_routes, poll_result, installed,
           in_headers, in_response, ex_result, fleet, phase >>

(***************************************************************************)
(* Bounds                                                                  *)
(***************************************************************************)
MaxKeyLen == 2      \* longest `signadot-routing-key` text, in tokens
MaxItems == 2       \* most comma-separated items in a `baggage` text
MaxDecideItems == 1 \* most baggage items of a message handed to _should_process
MaxMessages == 2    \* deliveries in one run of the consumer
MaxRules == 2       \* most rule objects in one control-plane response

(***************************************************************************)
(* Text                                                                    *)
(***************************************************************************)
SP == " "
COMMA == ","
EQ == "="
SdRoutingKey == <<"sd-routing-key">>
BadByte == "0xFF"

Range(s) == { s[i] : i \in 1..Len(s) }

RECURSIVE SeqsUpTo(_, _)
SeqsUpTo(S, n) ==
    IF n = 0 THEN { <<>> }
    ELSE LET shorter == SeqsUpTo(S, n - 1)
         IN  shorter \cup { Append(s, c) : s \in shorter, c \in S }

\* str.strip(): drop leading and trailing whitespace
RECURSIVE LStrip(_)
LStrip(s) == IF s # <<>> /\ Head(s) = SP THEN LStrip(Tail(s)) ELSE s

RECURSIVE RStrip(_)
RStrip(s) == IF s # <<>> /\ s[Len(s)] = SP THEN RStrip(SubSeq(s, 1, Len(s) - 1)) ELSE s

Strip(s) == RStrip(LStrip(s))

\* index of the first occurrence of token c in s, 0 if none
IndexOf(s, c) ==
    IF c \in Range(s)
    THEN CHOOSE i \in 1..Len(s) : s[i] = c /\ \A j \in 1..(i - 1) : s[j] # c
    ELSE 0

\* str.split(sep): the pieces between every occurrence of sep
RECURSIVE Split(_, _)
Split(s, sep) ==
    LET p == IndexOf(s, sep)
    IN  IF p = 0 THEN << s >>
        ELSE << SubSeq(s, 1, p - 1) >> \o Split(SubSeq(s, p + 1, Len(s)), sep)

\* sep.join(items)
RECURSIVE Join(_, _)
Join(items, sep) ==
    IF items = <<>> THEN <<>>
    ELSE IF Len(items) = 1 THEN items[1]
    ELSE items[1] \o << sep >> \o Join(Tail(items), sep)

(***************************************************************************)
(* Python values that can sit in an AMQP header table or come out of the   *)
(* extractor: None, str, bytes, int, and a raised exception.               *)
(***************************************************************************)
None == [kind |-> "none", val |-> <<>>]
Str(s) == [kind |-> "str", val |-> s]
Bytes(s) == [kind |-> "bytes", val |-> s]
Int(d) == [kind |-> "int", val |-> << d >>]
Raise(e) == [kind |-> "raise", val |-> << e >>]

\* bool(v)
Truthy(v) ==
    CASE v.kind = "none" -> FALSE
      [] v.kind = "int" -> v.val # << "0" >>
      [] OTHER -> v.val # <<>>

(***************************************************************************)
(* _extract_routing_key                                                    *)
(***************************************************************************)
\* v.decode("utf-8") if isinstance(v, (bytes, bytearray)) else v
_normalize(v) ==
    IF v.kind = "bytes"
    THEN IF BadByte \in Range(v.val) THEN Raise("UnicodeDecodeError") ELSE Str(v.val)
    ELSE v

\* the baggage loop with the value returned untrimmed
RECURSIVE baggage_scan_untrimmed(_)
baggage_scan_untrimmed(items) ==
    IF items = <<>> THEN None
    ELSE LET item == Strip(Head(items))
             p == IndexOf(item, EQ)
         IN  IF p # 0 /\ Strip(SubSeq(item, 1, p - 1)) = SdRoutingKey
             THEN Str(SubSeq(item, p + 1, Len(item)))
             ELSE baggage_scan_untrimmed(Tail(items))

\* for item in baggage.split(","): ... return v.strip()
RECURSIVE baggage_scan(_)
baggage_scan(items) ==
    IF items = <<>> THEN None
    ELSE LET item == Strip(Head(items))
             p == IndexOf(item, EQ)
         IN  IF p # 0
             THEN LET k == SubSeq(item, 1, p - 1)
                      v == SubSeq(item, p + 1, Len(item))
                  IN  IF Strip(k) = SdRoutingKey
                      THEN Str(Strip(v))
                      ELSE baggage_scan(Tail(items))
             ELSE baggage_scan(Tail(items))

\* `if not headers`: the map is None or empty
HeadersFalsy(headers) == headers.rk = None /\ headers.baggage = None

_extract_routing_key(headers) ==
    IF HeadersFalsy(headers) THEN None
    ELSE
      LET rk == _normalize(headers.rk)
      IN  IF rk.kind = "raise" THEN rk
          ELSE IF Truthy(rk) THEN rk
          ELSE
            LET got == IF headers.baggage = None THEN Str(<<>>) ELSE headers.baggage
                norm == _normalize(got)
            IN  IF norm.kind = "raise" THEN norm
                ELSE
                  LET baggage == IF Truthy(norm) THEN norm ELSE Str(<<>>)
                  IN  IF Truthy(baggage)
                      THEN IF baggage.kind = "str"
                           THEN baggage_scan(Split(baggage.val, COMMA))
                           ELSE Raise("AttributeError")
                      ELSE None

(***************************************************************************)
(* Metadata maps handed to the extractor.  A map is its two routing fields; *)
(* None stands for a field that is not in the map.                         *)
(***************************************************************************)
KeyTokens == { SP, "sbx-42", "sbx-99" }
KeyTexts == SeqsUpTo(KeyTokens, MaxKeyLen) \cup { << "SBX-42" >> }

NonTextValues == { Int("0"), Int("42"), Bytes(<< BadByte >>), Bytes(<< "sbx-42", BadByte >>) }

RoutingKeyFields ==
    { None } \cup { Str(s) : s \in KeyTexts } \cup { Bytes(s) : s \in KeyTexts }
      \cup NonTextValues

ItemShapes ==
    { <<>>,
      << "foo" >>,
      << "foo", EQ, "bar" >>,
      << EQ, "sbx-42" >>,
      SdRoutingKey,
      SdRoutingKey \o << EQ >>,
      SdRoutingKey \o << EQ, SP >>,
      SdRoutingKey \o << EQ, "sbx-42" >>,
      SdRoutingKey \o << EQ, "sbx-99" >>,
      << SP >> \o SdRoutingKey \o << SP, EQ, SP, "sbx-42", SP >>,
      SdRoutingKey \o << EQ, "sbx-42", EQ, "x" >>,
      << "x" >> \o SdRoutingKey \o << EQ, "sbx-42" >> }

BaggageTexts(n) == { Join(items, COMMA) : items \in SeqsUpTo(ItemShapes, n) }

BaggageFields(n) ==
    { None } \cup { Str(s) : s \in BaggageTexts(n) } \cup { Bytes(s) : s \in BaggageTexts(n) }
      \cup NonTextValues

Headers(n) == [ rk : RoutingKeyFields, baggage : BaggageFields(n) ]

NoHeaders == [ rk |-> None, baggage |-> None ]

\* a response body `{}`: no "routingRules" field
NoResponse == [ kind |-> "no_rules_field", rules |-> <<>> ]

(***************************************************************************)
(* Values of the variables that a specification does not use               *)
(***************************************************************************)
Tags == 1..MaxMessages

ConsumerIdle ==
    /\ routes_lock = "none"
    /\ stop_event = FALSE
    /\ connection_open = TRUE
    /\ channel_open = TRUE
    /\ consuming = FALSE
    /\ main_pc = "start"
    /\ delivered = 0
    /\ msg_key = None
    /\ is_active = FALSE
    /\ should = "unset"
    /\ exc = "none"
    /\ outcome = "none"
    /\ ack_calls = [t \in Tags |-> 0]
    /\ acked = [t \in Tags |-> FALSE]
    /\ handled = [t \in Tags |-> 0]
    /\ poller_pc = "not_started"
    /\ poller_active = {}
    /\ cycle_start_routes = {}
    /\ poll_result = "none"
    /\ installed = FALSE

(***************************************************************************)
(* SpecExtract: _extract_routing_key applied to every metadata map         *)
(***************************************************************************)
InitExtract ==
    /\ ConsumerIdle
    /\ is_baseline = TRUE
    /\ sandbox_routing_key = <<>>
    /\ active_routes = {}
    /\ in_headers \in Headers(MaxItems)
    /\ in_response = NoResponse
    /\ fleet = << >>
    /\ ex_result = None
    /\ phase = "input"

Extract ==
    /\ phase = "input"
    /\ ex_result' = _extract_routing_key(in_headers)
    /\ phase' = "output"
    /\ UNCHANGED << is_baseline, sandbox_routing_key, active_routes, routes_lock,
                    stop_event, connection_open, channel_open, consuming,
                    main_pc, delivered, msg_key, is_active, should, exc, outcome,
                    ack_calls, acked, handled,
                    poller_pc, poller_active, cycle_start_routes, poll_result,
                    installed, in_headers, in_response, fleet >>

NextExtract == Extract

SpecExtract == InitExtract /\ [][NextExtract]_vars

(***************************************************************************)
(* What the extractor is specified to return, stated on positions of the   *)
(* text rather than by scanning it.                                        *)
(***************************************************************************)
IsBlank(s) == \A i \in 1..Len(s) : s[i] = SP

Trimmed(s) ==
    IF IsBlank(s) THEN <<>>
    ELSE LET inked == { i \in 1..Len(s) : s[i] # SP }
             a == CHOOSE i \in inked : \A j \in inked : i <= j
             b == CHOOSE i \in inked : \A j \in inked : j <= i
         IN  SubSeq(s, a, b)

\* a field that is missing from the map or holds empty text
EmptyField(v) == v = None \/ (v.kind \in {"str", "bytes"} /\ v.val = <<>>)

\* a field that holds text: str, or bytes that are valid UTF-8
TextField(v) == v.kind \in {"str", "bytes"} /\ BadByte \notin Range(v.val)

\* the items of a baggage text, each as the pair of separator positions around it
ItemBounds(text) ==
    LET cuts == { 0, Len(text) + 1 } \cup { i \in 1..Len(text) : text[i] = COMMA }
    IN  { ab \in cuts \X cuts :
            /\ ab[1] < ab[2]
            /\ \A c \in cuts : ~(ab[1] < c /\ c < ab[2]) }

ItemText(text, ab) == SubSeq(text, ab[1] + 1, ab[2] - 1)

\* the item is `key=value` with key, trimmed, equal to sd-routing-key
IsRoutingItem(item) ==
    \E p \in 1..Len(item) :
        /\ item[p] = EQ
        /\ \A q \in 1..(p - 1) : item[q] # EQ
        /\ Trimmed(SubSeq(item, 1, p - 1)) = SdRoutingKey

ValueOf(item) ==
    LET p == CHOOSE q \in 1..Len(item) : item[q] = EQ /\ \A r \in 1..(q - 1) : item[r] # EQ
    IN  Trimmed(SubSeq(item, p + 1, Len(item)))

RoutingItems(text) == { ab \in ItemBounds(text) : IsRoutingItem(ItemText(text, ab)) }

FirstRoutingItem(text) ==
    LET found == RoutingItems(text)
        ab == CHOOSE x \in found : \A y \in found : x[1] <= y[1]
    IN  ItemText(text, ab)

\* C7: a non-empty `signadot-routing-key` (text or UTF-8 bytes) is returned with
\* its surrounding whitespace trimmed, whatever `baggage` holds.  Stated for the
\* values that are not all whitespace, where "trimmed" leaves something.
C7_ExplicitKeyReturnedTrimmed ==
    ( /\ phase = "output"
      /\ TextField(in_headers.rk)
      /\ ~IsBlank(in_headers.rk.val) )
    => ex_result = Str(Trimmed(in_headers.rk.val))

\* C8: without a `signadot-routing-key` (missing or empty), and with a baggage
\* text that has an `sd-routing-key=V` item, the result is the trimmed value of
\* the first such item; items with other keys or without "=" are passed over.
C8_BaggageFirstMatchTrimmed ==
    ( /\ phase = "output"
      /\ EmptyField(in_headers.rk)
      /\ in_headers.baggage # None
      /\ TextField(in_headers.baggage)
      /\ RoutingItems(in_headers.baggage.val) # {} )
    => ex_result = Str(ValueOf(FirstRoutingItem(in_headers.baggage.val)))

\* C8 witness: "foo=bar, sd-routing-key = sbx-42 " yields "sbx-42": the first
\* item is skipped and the value comes back trimmed.
C8_Witness ==
    /\ phase = "output"
    /\ in_headers.rk = None
    /\ in_headers.baggage =
         Str(<< "foo", EQ, "bar", COMMA, SP >> \o SdRoutingKey \o << SP, EQ, SP, "sbx-42", SP >>)
    /\ ex_result = Str(<< "sbx-42" >>)

\* C9: with neither routing field, or with empty routing values (an empty
\* `signadot-routing-key`, an empty `baggage`, or a first `sd-routing-key=` item
\* whose value is empty after trimming), the result is None, never empty text.
C9_EmptyValuesYieldNone ==
    ( /\ phase = "output"
      /\ EmptyField(in_headers.rk)
      /\ \/ EmptyField(in_headers.baggage)
         \/ /\ TextField(in_headers.baggage)
            /\ RoutingItems(in_headers.baggage.val) # {}
            /\ ValueOf(FirstRoutingItem(in_headers.baggage.val)) = <<>> )
    => ex_result = None

(***************************************************************************)
(* _should_process                                                         *)
(***************************************************************************)
RouteKeys == { << "sbx-42" >>, << "sbx-99" >> }

\* os.environ.get("SIGNADOT_SANDBOX_ROUTING_KEY"): unset or empty (<<>>), or a key
SandboxKeyEnv == { <<>> } \cup RouteKeys

\* not bool(self.sandbox_routing_key)
IsBaselineFor(key) == key = <<>>

\* msg_key == self.sandbox_routing_key
sandbox_decision(key, my_key) == key = Str(my_key)

\* msg_key in self._active_routes
InRoutes(key, routes) == key.kind = "str" /\ key.val \in routes

\* the baseline branch without the lookup: every keyed message is skipped
_should_process_skips_orphans(baseline, my_key, headers, routes) ==
    LET key == _extract_routing_key(headers)
    IN  IF key.kind = "raise" THEN "raise"
        ELSE IF ~baseline THEN (IF sandbox_decision(key, my_key) THEN "true" ELSE "false")
        ELSE IF ~Truthy(key) THEN "true"
        ELSE "false"

\* the sandbox branch falling through to the baseline rule
_should_process_sandbox_as_baseline(baseline, my_key, headers, routes) ==
    LET key == _extract_routing_key(headers)
    IN  IF key.kind = "raise" THEN "raise"
        ELSE IF ~baseline /\ sandbox_decision(key, my_key) THEN "true"
        ELSE IF ~Truthy(key) THEN "true"
        ELSE IF ~InRoutes(key, routes) THEN "true"
        ELSE "false"

\* "true" / "false": the value returned; "raise": an exception leaves the function
_should_process(baseline, my_key, headers, routes) ==
    LET key == _extract_routing_key(headers)
    IN  IF key.kind = "raise" THEN "raise"
        ELSE IF ~baseline THEN (IF sandbox_decision(key, my_key) THEN "true" ELSE "false")
        ELSE IF ~Truthy(key) THEN "true"
        ELSE IF ~InRoutes(key, routes) THEN "true"
        ELSE "false"

(***************************************************************************)
(* SpecDecide: _should_process applied for every instance mode, every      *)
(* active route set and every metadata map                                 *)
(***************************************************************************)
InitDecide ==
    /\ ConsumerIdle
    /\ sandbox_routing_key \in SandboxKeyEnv
    /\ is_baseline = IsBaselineFor(sandbox_routing_key)
    /\ active_routes \in SUBSET RouteKeys
    /\ in_headers \in Headers(MaxDecideItems)
    /\ in_response = NoResponse
    /\ fleet = << >>
    /\ ex_result = None
    /\ phase = "input"

Decide ==
    /\ phase = "input"
    /\ should' = _should_process(is_baseline, sandbox_routing_key, in_headers, active_routes)
    /\ phase' = "output"
    /\ UNCHANGED << is_baseline, sandbox_routing_key, active_routes, routes_lock,
                    stop_event, connection_open, channel_open, consuming,
                    main_pc, delivered, msg_key, is_active, exc, outcome,
                    ack_calls, acked, handled,
                    poller_pc, poller_active, cycle_start_routes, poll_result,
                    installed, in_headers, in_response, ex_result, fleet >>

NextDecide == Decide

SpecDecide == InitDecide /\ [][NextDecide]_vars

\* C4: a baseline instance returns true when the extracted key is absent, true
\* when it is present but not in the active route set, false when it is present
\* and in the set; it returns true in no other case and false in no other case.
C4_BaselineThreeCases ==
    (phase = "output" /\ is_baseline) =>
        LET key == _extract_routing_key(in_headers)
            returned == key.kind # "raise"
            member == key.kind = "str" /\ key.val \in active_routes
            absent == returned /\ key = None
            orphan == returned /\ key # None /\ ~member
            live == returned /\ key # None /\ member
        IN  /\ absent => should = "true"
            /\ orphan => should = "true"
            /\ live => should = "false"
            /\ should = "true" => (absent \/ orphan)
            /\ should = "false" => live
            /\ returned => (should \in {"true", "false"})

\* C4 witness: baseline, active set {"sbx-42"}, `signadot-routing-key: sbx-42`
\* is rejected.
C4_Witness ==
    /\ phase = "output"
    /\ is_baseline
    /\ active_routes = { << "sbx-42" >> }
    /\ in_headers.rk = Str(<< "sbx-42" >>)
    /\ should = "false"

\* C5: a sandbox instance with key K returns true exactly when the extracted key
\* is the text K (token for token, so "SBX-42" is not "sbx-42"), false for every
\* other extracted value and for None, whatever the active route set is.
C5_SandboxExactKey ==
    (phase = "output" /\ ~is_baseline) =>
        LET key == _extract_routing_key(in_headers)
            returned == key.kind # "raise"
            mine == key.kind = "str" /\ key.val = sandbox_routing_key
        IN  /\ (returned /\ mine) => should = "true"
            /\ (returned /\ ~mine) => should = "false"
            /\ should = "true" => mine
            /\ should = "false" => ~mine

\* C5 witness: sandbox "sbx-42" with "sbx-42" in the active route set accepts
\* baggage " sd-routing-key = sbx-42 ".
C5_Witness ==
    /\ phase = "output"
    /\ ~is_baseline
    /\ sandbox_routing_key = << "sbx-42" >>
    /\ active_routes = { << "sbx-42" >> }
    /\ in_headers.rk = None
    /\ in_headers.baggage = Str(<< SP >> \o SdRoutingKey \o << SP, EQ, SP, "sbx-42", SP >>)
    /\ should = "true"

(***************************************************************************)
(* The control-plane response and what update_routes makes of it           *)
(***************************************************************************)
\* one element of "routingRules": a JSON object with its "routingKey" (None when
\* the field is missing), or something that is not an object
RuleShapes ==
    { [dict |-> TRUE, routingKey |-> None],
      [dict |-> TRUE, routingKey |-> Str(<<>>)],
      [dict |-> TRUE, routingKey |-> Str(<< "sbx-42" >>)],
      [dict |-> TRUE, routingKey |-> Str(<< "sbx-99" >>)],
      [dict |-> FALSE, routingKey |-> None] }

Responses ==
    { [kind |-> k, rules |-> <<>>] :
        k \in { "timeout", "http_error", "not_json", "json_not_object",
                "no_rules_field", "null_rules" } }
    \cup { [kind |-> "rules", rules |-> rs] : rs \in SeqsUpTo(RuleShapes, MaxRules) }

Failed(e) == [ok |-> FALSE, error |-> e, active |-> {}]
Fetched(a) == [ok |-> TRUE, error |-> "none", active |-> a]

\* the set comprehension without its filter: {r.get("routingKey") for r in rules}
fetch_active_includes_empty(resp) ==
    CASE resp.kind = "timeout" -> Failed("Timeout")
      [] resp.kind = "http_error" -> Failed("HTTPError")
      [] resp.kind = "not_json" -> Failed("JSONDecodeError")
      [] resp.kind = "json_not_object" -> Failed("AttributeError")
      [] resp.kind = "null_rules" -> Failed("TypeError")
      [] resp.kind = "no_rules_field" -> Fetched({})
      [] OTHER ->
           IF \E i \in 1..Len(resp.rules) : ~resp.rules[i].dict
           THEN Failed("AttributeError")
           ELSE Fetched({ resp.rules[i].routingKey.val : i \in 1..Len(resp.rules) })

\* requests.get ... active = {r.get("routingKey") for r in rules if r.get("routingKey")}
fetch_active(resp) ==
    CASE resp.kind = "timeout" -> Failed("Timeout")
      [] resp.kind = "http_error" -> Failed("HTTPError")
      [] resp.kind = "not_json" -> Failed("JSONDecodeError")
      [] resp.kind = "json_not_object" -> Failed("AttributeError")
      [] resp.kind = "null_rules" -> Failed("TypeError")
      [] resp.kind = "no_rules_field" -> Fetched({})
      [] OTHER ->
           IF \E i \in 1..Len(resp.rules) : ~resp.rules[i].dict
           THEN Failed("AttributeError")
           ELSE Fetched({ resp.rules[i].routingKey.val :
                            i \in { j \in 1..Len(resp.rules) :
                                      Truthy(resp.rules[j].routingKey) } })

(***************************************************************************)
(* SpecFleet: one baseline instance and one sandbox instance per live key, *)
(* each with its own queue bound to the exchange with "#", so each gets a  *)
(* copy of the message; the baseline's route set is the set of live keys   *)
(***************************************************************************)
\* the instances of the fleet, named by their SIGNADOT_SANDBOX_ROUTING_KEY
Instances(live) == { << >> } \cup live

InitFleet ==
    /\ ConsumerIdle
    /\ is_baseline = TRUE
    /\ sandbox_routing_key = << >>
    /\ active_routes \in SUBSET RouteKeys
    /\ in_headers \in Headers(MaxDecideItems)
    /\ in_response = NoResponse
    /\ ex_result = None
    /\ fleet = [k \in Instances(active_routes) |-> "pending"]
    /\ phase = "input"

\* _on_message of instance k on its copy: handle_message is called when its
\* _should_process returns true, skipped when false, and never reached when
\* _should_process raises.  A sandbox's own route set is never filled.
FleetReceive ==
    /\ phase = "input"
    /\ \E k \in DOMAIN fleet :
         /\ fleet[k] = "pending"
         /\ LET d == _should_process(IsBaselineFor(k), k, in_headers,
                                     IF IsBaselineFor(k) THEN active_routes ELSE {})
                did == CASE d = "true" -> "handled"
                         [] d = "false" -> "skipped"
                         [] OTHER -> "raised"
            IN  fleet' = [fleet EXCEPT ![k] = did]
         /\ phase' = IF \A j \in DOMAIN fleet \ { k } : fleet[j] # "pending"
                     THEN "output" ELSE "input"
    /\ UNCHANGED << is_baseline, sandbox_routing_key, active_routes, routes_lock,
                    stop_event, connection_open, channel_open, consuming,
                    main_pc, delivered, msg_key, is_active, should, exc, outcome,
                    ack_calls, acked, handled,
                    poller_pc, poller_active, cycle_start_routes, poll_result,
                    installed, in_headers, in_response, ex_result >>

NextFleet == FleetReceive

SpecFleet == InitFleet /\ [][NextFleet]_vars

(***************************************************************************)
(* SpecPoll: one cycle of update_routes on every response, from every      *)
(* route set an earlier cycle can have installed                           *)
(***************************************************************************)
InitPoll ==
    /\ ConsumerIdle
    /\ is_baseline = TRUE
    /\ sandbox_routing_key = <<>>
    /\ active_routes \in SUBSET RouteKeys
    /\ in_headers = NoHeaders
    /\ in_response \in Responses
    /\ fleet = << >>
    /\ ex_result = None
    /\ phase = "input"

\* the body of the while loop up to the sleep: fetch, build the set, install
\* it under the lock and log; or log the error and leave the set alone
PollOnce ==
    /\ phase = "input"
    /\ cycle_start_routes' = active_routes
    /\ LET got == fetch_active(in_response)
       IN  IF got.ok
           THEN /\ poller_active' = got.active
                /\ active_routes' = got.active
                /\ installed' = TRUE
                /\ poll_result' = "ok"
           ELSE /\ poll_result' = "failed"
                /\ UNCHANGED << poller_active, active_routes, installed >>
    /\ phase' = "output"
    /\ UNCHANGED << is_baseline, sandbox_routing_key, routes_lock,
                    stop_event, connection_open, channel_open, consuming,
                    main_pc, delivered, msg_key, is_active, should, exc, outcome,
                    ack_calls, acked, handled, poller_pc,
                    in_headers, in_response, ex_result, fleet >>

NextPoll == PollOnce

SpecPoll == InitPoll /\ [][NextPoll]_vars

(***************************************************************************)
(* OrderProcessorConsumer.handle_message                                   *)
(***************************************************************************)
Bodies == { "json_object", "invalid_json", "json_not_object" }

\* TRUE when the handler raises
handle_message_raises(body) == body = "json_not_object"

(***************************************************************************)
(* Spec: one consumer process, its main thread and its poller thread       *)
(***************************************************************************)
\* properties.headers of the messages the broker delivers
MessageHeaders ==
    { NoHeaders,
      [rk |-> Str(<< "sbx-42" >>), baggage |-> None],
      [rk |-> Bytes(<< "sbx-99" >>), baggage |-> None],
      [rk |-> None,
       baggage |-> Str(<< "foo", EQ, "bar", COMMA, SP >> \o SdRoutingKey \o << EQ, "sbx-42" >>)],
      [rk |-> None, baggage |-> Str(SdRoutingKey \o << EQ >>)],
      [rk |-> Bytes(<< BadByte >>), baggage |-> None],
      [rk |-> None, baggage |-> Int("42")] }

InMessage == { "extract", "lock_acquire", "lock_read", "lock_release",
               "decided", "handle", "ack" }

\* the interpreter is running: the poller is a daemon thread and ends with it
ProcessAlive == main_pc # "exited"

\* a constructor that starts with a route already in the set
Init_preloaded ==
    /\ ConsumerIdle
    /\ sandbox_routing_key \in SandboxKeyEnv
    /\ is_baseline = IsBaselineFor(sandbox_routing_key)
    /\ active_routes = { << "sbx-42" >> }
    /\ in_headers = NoHeaders
    /\ in_response = NoResponse
    /\ fleet = << >>
    /\ ex_result = None
    /\ phase = "input"

Init ==
    /\ ConsumerIdle
    /\ sandbox_routing_key \in SandboxKeyEnv
    /\ is_baseline = IsBaselineFor(sandbox_routing_key)
    /\ active_routes = {}
    /\ in_headers = NoHeaders
    /\ in_response = NoResponse
    /\ fleet = << >>
    /\ ex_result = None
    /\ phase = "input"

pure_vars == << in_headers, in_response, ex_result, fleet, phase >>
identity_vars == << is_baseline, sandbox_routing_key >>
broker_vars == << connection_open, channel_open, consuming >>
tally_vars == << ack_calls, acked, handled >>
poller_vars == << poller_pc, poller_active, cycle_start_routes, poll_result, installed >>
decide_vars == << msg_key, is_active, should >>

\* start() with a route updater that has no sandbox early return
Start_always_polls ==
    /\ main_pc = "start"
    /\ poller_pc' = "loop_test"
    /\ consuming' = TRUE
    /\ main_pc' = "start_consuming"
    /\ UNCHANGED << identity_vars, active_routes, routes_lock, stop_event,
                    connection_open, channel_open, delivered, decide_vars, exc,
                    outcome, tally_vars, poller_active, cycle_start_routes,
                    poll_result, installed,
                    pure_vars >>

\* start(): declare and bind the queue, start the poller (baseline only),
\* register _on_message, install the signal handlers
Start ==
    /\ main_pc = "start"
    /\ poller_pc' = IF is_baseline THEN "loop_test" ELSE "not_started"
    /\ consuming' = TRUE
    /\ main_pc' = "start_consuming"
    /\ UNCHANGED << identity_vars, active_routes, routes_lock, stop_event,
                    connection_open, channel_open, delivered, decide_vars, exc,
                    outcome, tally_vars, poller_active, cycle_start_routes,
                    poll_result, installed,
                    pure_vars >>

\* start_consuming hands the next message to _on_message
Deliver ==
    /\ main_pc = "start_consuming"
    /\ consuming /\ channel_open
    /\ delivered < MaxMessages
    /\ delivered' = delivered + 1
    /\ msg_key' = None
    /\ is_active' = FALSE
    /\ should' = "unset"
    /\ outcome' = "received"
    /\ main_pc' = "extract"
    /\ UNCHANGED << identity_vars, active_routes, routes_lock, stop_event,
                    broker_vars, exc, tally_vars, poller_vars, pure_vars >>

\* _should_process up to the lock: extract the key, decide what needs no lookup
ExtractKey ==
    /\ main_pc = "extract"
    /\ \E h \in MessageHeaders :
         LET key == _extract_routing_key(h)
         IN  IF key.kind = "raise"
             THEN /\ exc' = key.val[1]
                  /\ outcome' = "decide_raised"
                  /\ main_pc' = "ack"
                  /\ UNCHANGED decide_vars
             ELSE /\ msg_key' = key
                  /\ exc' = exc
                  /\ outcome' = outcome
                  /\ is_active' = is_active
                  /\ IF ~is_baseline
                     THEN /\ should' = IF sandbox_decision(key, sandbox_routing_key)
                                       THEN "true" ELSE "false"
                          /\ main_pc' = "decided"
                     ELSE IF ~Truthy(key)
                     THEN /\ should' = "true"
                          /\ main_pc' = "decided"
                     ELSE /\ should' = should
                          /\ main_pc' = "lock_acquire"
    /\ UNCHANGED << identity_vars, active_routes, routes_lock, stop_event,
                    broker_vars, delivered, tally_vars, poller_vars, pure_vars >>

\* the membership test made without entering the with block
MainAcquire_no_lock ==
    /\ main_pc = "lock_acquire"
    /\ main_pc' = "lock_read"
    /\ UNCHANGED << identity_vars, active_routes, routes_lock, stop_event,
                    broker_vars, delivered, decide_vars, exc, outcome, tally_vars,
                    poller_vars, pure_vars >>

\* with self._routes_lock: (enter)
MainAcquire ==
    /\ main_pc = "lock_acquire"
    /\ routes_lock = "none"
    /\ routes_lock' = "main"
    /\ main_pc' = "lock_read"
    /\ UNCHANGED << identity_vars, active_routes, stop_event, broker_vars,
                    delivered, decide_vars, exc, outcome, tally_vars,
                    poller_vars, pure_vars >>

\* is_active = msg_key in self._active_routes
MainRead ==
    /\ main_pc = "lock_read"
    /\ is_active' = InRoutes(msg_key, active_routes)
    /\ main_pc' = "lock_release"
    /\ UNCHANGED << identity_vars, active_routes, routes_lock, stop_event,
                    broker_vars, delivered, msg_key, should, exc, outcome,
                    tally_vars, poller_vars, pure_vars >>

\* with self._routes_lock: (leave), then return not is_active
MainRelease ==
    /\ main_pc = "lock_release"
    /\ routes_lock' = "none"
    /\ should' = IF is_active THEN "false" ELSE "true"
    /\ main_pc' = "decided"
    /\ UNCHANGED << identity_vars, active_routes, stop_event, broker_vars,
                    delivered, msg_key, is_active, exc, outcome, tally_vars,
                    poller_vars, pure_vars >>

\* the handler called without the if
Dispatch_always_handles ==
    /\ main_pc = "decided"
    /\ main_pc' = "handle" /\ outcome' = outcome
    /\ UNCHANGED << identity_vars, active_routes, routes_lock, stop_event,
                    broker_vars, delivered, decide_vars, exc, tally_vars,
                    poller_vars, pure_vars >>

\* if self._should_process(properties):
Dispatch ==
    /\ main_pc = "decided"
    /\ IF should = "true"
       THEN main_pc' = "handle" /\ outcome' = outcome
       ELSE main_pc' = "ack" /\ outcome' = "rejected"
    /\ UNCHANGED << identity_vars, active_routes, routes_lock, stop_event,
                    broker_vars, delivered, decide_vars, exc, tally_vars,
                    poller_vars, pure_vars >>

\* try: self.handle_message(...) except Exception: log
Handle ==
    /\ main_pc = "handle"
    /\ \E body \in Bodies :
         outcome' = IF handle_message_raises(body) THEN "handler_raised" ELSE "handled"
    /\ handled' = [handled EXCEPT ![delivered] = @ + 1]
    /\ main_pc' = "ack"
    /\ UNCHANGED << identity_vars, active_routes, routes_lock, stop_event,
                    broker_vars, delivered, decide_vars, exc, ack_calls, acked,
                    poller_vars, pure_vars >>

\* basic_ack placed in the accepted branch instead of the finally clause
Ack_only_when_accepted ==
    /\ main_pc = "ack"
    /\ IF outcome \in { "handled", "handler_raised" }
       THEN /\ ack_calls' = [ack_calls EXCEPT ![delivered] = @ + 1]
            /\ acked' = [acked EXCEPT ![delivered] = channel_open]
       ELSE UNCHANGED << ack_calls, acked >>
    /\ exc' = IF channel_open THEN exc ELSE "ChannelWrongStateError"
    /\ main_pc' = IF exc' = "none" THEN "start_consuming" ELSE "except"
    /\ UNCHANGED << identity_vars, active_routes, routes_lock, stop_event,
                    broker_vars, delivered, decide_vars, outcome, handled,
                    poller_vars, pure_vars >>

\* finally: ch.basic_ack(delivery_tag=method.delivery_tag); on a closed channel
\* the call raises and nothing reaches the broker.  An exception that leaves
\* _on_message leaves start_consuming too.
Ack ==
    /\ main_pc = "ack"
    /\ ack_calls' = [ack_calls EXCEPT ![delivered] = @ + 1]
    /\ acked' = [acked EXCEPT ![delivered] = channel_open]
    /\ exc' = IF channel_open THEN exc ELSE "ChannelWrongStateError"
    /\ main_pc' = IF exc' = "none" THEN "start_consuming" ELSE "except"
    /\ UNCHANGED << identity_vars, active_routes, routes_lock, stop_event,
                    broker_vars, delivered, decide_vars, outcome, handled,
                    poller_vars, pure_vars >>

\* stop(): set the event, stop consuming if the channel is open, close the
\* connection if it is open (which closes its channel)
StopEffect ==
    /\ stop_event' = TRUE
    /\ consuming' = FALSE
    /\ channel_open' = FALSE
    /\ connection_open' = FALSE

\* SIGTERM / SIGINT: _graceful_stop runs stop() in the main thread, between two
\* of its steps, wherever it is
Signal ==
    /\ main_pc \notin { "start", "exited" }
    /\ StopEffect
    /\ UNCHANGED << identity_vars, active_routes, routes_lock, main_pc, delivered,
                    decide_vars, exc, outcome, tally_vars, poller_vars, pure_vars >>

\* start_consuming returns once no consumer is left; start() returns
ConsumingEnds ==
    /\ main_pc = "start_consuming"
    /\ ~consuming
    /\ main_pc' = "exited"
    /\ UNCHANGED << identity_vars, active_routes, routes_lock, stop_event,
                    broker_vars, delivered, decide_vars, exc, outcome, tally_vars,
                    poller_vars, pure_vars >>

\* except Exception as e: log; self.stop()
ExceptStop ==
    /\ main_pc = "except"
    /\ StopEffect
    /\ main_pc' = "exited"
    /\ UNCHANGED << identity_vars, active_routes, routes_lock, delivered,
                    decide_vars, exc, outcome, tally_vars, poller_vars, pure_vars >>

\* a loop that does not test the event: while True
PollerLoopTest_ignores_stop ==
    /\ ProcessAlive
    /\ poller_pc = "loop_test"
    /\ poller_pc' = "request"
    /\ cycle_start_routes' = active_routes
    /\ poll_result' = "none"
    /\ UNCHANGED << identity_vars, active_routes, routes_lock, stop_event,
                    broker_vars, main_pc, delivered, decide_vars, exc, outcome,
                    tally_vars, poller_active, installed, pure_vars >>

\* while not self._stop_event.is_set():
PollerLoopTest ==
    /\ ProcessAlive
    /\ poller_pc = "loop_test"
    /\ IF stop_event
       THEN /\ poller_pc' = "done"
            /\ UNCHANGED << cycle_start_routes, poll_result >>
       ELSE /\ poller_pc' = "request"
            /\ cycle_start_routes' = active_routes
            /\ poll_result' = "none"
    /\ UNCHANGED << identity_vars, active_routes, routes_lock, stop_event,
                    broker_vars, main_pc, delivered, decide_vars, exc, outcome,
                    tally_vars, poller_active, installed,
                    pure_vars >>

\* a failed cycle that also empties the table
PollerRequest_clears_on_failure ==
    /\ ProcessAlive
    /\ poller_pc = "request"
    /\ \E resp \in Responses :
         LET got == fetch_active(resp)
         IN  IF got.ok
             THEN /\ poller_active' = got.active
                  /\ poller_pc' = "lock_acquire"
                  /\ UNCHANGED << poll_result, active_routes >>
             ELSE /\ poll_result' = "failed"
                  /\ poller_pc' = "sleep"
                  /\ active_routes' = {}
                  /\ UNCHANGED poller_active
    /\ UNCHANGED << identity_vars, routes_lock, stop_event,
                    broker_vars, main_pc, delivered, decide_vars, exc, outcome,
                    tally_vars, cycle_start_routes, installed,
                    pure_vars >>

\* an exception of the cycle that is not caught and ends the thread
PollerRequest_exits_on_failure ==
    /\ ProcessAlive
    /\ poller_pc = "request"
    /\ \E resp \in Responses :
         LET got == fetch_active(resp)
         IN  IF got.ok
             THEN /\ poller_active' = got.active
                  /\ poller_pc' = "lock_acquire"
                  /\ UNCHANGED poll_result
             ELSE /\ poll_result' = "failed"
                  /\ poller_pc' = "done"
                  /\ UNCHANGED poller_active
    /\ UNCHANGED << identity_vars, active_routes, routes_lock, stop_event,
                    broker_vars, main_pc, delivered, decide_vars, exc, outcome,
                    tally_vars, cycle_start_routes, installed, pure_vars >>

\* the request, raise_for_status, parse and set comprehension; an exception
\* anywhere in them is logged by one of the except clauses
PollerRequest ==
    /\ ProcessAlive
    /\ poller_pc = "request"
    /\ \E resp \in Responses :
         LET got == fetch_active(resp)
         IN  IF got.ok
             THEN /\ poller_active' = got.active
                  /\ poller_pc' = "lock_acquire"
                  /\ UNCHANGED poll_result
             ELSE /\ poll_result' = "failed"
                  /\ poller_pc' = "sleep"
                  /\ UNCHANGED poller_active
    /\ UNCHANGED << identity_vars, active_routes, routes_lock, stop_event,
                    broker_vars, main_pc, delivered, decide_vars, exc, outcome,
                    tally_vars, cycle_start_routes, installed,
                    pure_vars >>

\* with self._routes_lock: (enter)
PollerAcquire ==
    /\ ProcessAlive
    /\ poller_pc = "lock_acquire"
    /\ routes_lock = "none"
    /\ routes_lock' = "poller"
    /\ poller_pc' = "install"
    /\ UNCHANGED << identity_vars, active_routes, stop_event, broker_vars,
                    main_pc, delivered, decide_vars, exc, outcome, tally_vars,
                    poller_active, cycle_start_routes, poll_result, installed,
                    pure_vars >>

\* the table updated in place (self._active_routes.update(active)) instead of
\* being replaced
PollerInstall_in_place ==
    /\ ProcessAlive
    /\ poller_pc = "install"
    /\ active_routes' = active_routes \cup poller_active
    /\ installed' = TRUE
    /\ poller_pc' = "lock_release"
    /\ UNCHANGED << identity_vars, routes_lock, stop_event, broker_vars,
                    main_pc, delivered, decide_vars, exc, outcome, tally_vars,
                    poller_active, cycle_start_routes, poll_result, pure_vars >>

\* self._active_routes = active
PollerInstall ==
    /\ ProcessAlive
    /\ poller_pc = "install"
    /\ active_routes' = poller_active
    /\ installed' = TRUE
    /\ poller_pc' = "lock_release"
    /\ UNCHANGED << identity_vars, routes_lock, stop_event, broker_vars,
                    main_pc, delivered, decide_vars, exc, outcome, tally_vars,
                    poller_active, cycle_start_routes, poll_result, pure_vars >>

\* the lock kept past the with block, into the log line, the sleep and the
\* next request
PollerRelease_keeps_lock ==
    /\ ProcessAlive
    /\ poller_pc = "lock_release"
    /\ poller_pc' = "log"
    /\ UNCHANGED << identity_vars, active_routes, routes_lock, stop_event, broker_vars,
                    main_pc, delivered, decide_vars, exc, outcome, tally_vars,
                    poller_active, cycle_start_routes, poll_result, installed,
                    pure_vars >>

\* with self._routes_lock: (leave)
PollerRelease ==
    /\ ProcessAlive
    /\ poller_pc = "lock_release"
    /\ routes_lock' = "none"
    /\ poller_pc' = "log"
    /\ UNCHANGED << identity_vars, active_routes, stop_event, broker_vars,
                    main_pc, delivered, decide_vars, exc, outcome, tally_vars,
                    poller_active, cycle_start_routes, poll_result, installed,
                    pure_vars >>

\* logging.info("Updated active routes: %s", self._active_routes)
PollerLog ==
    /\ ProcessAlive
    /\ poller_pc = "log"
    /\ poll_result' = "ok"
    /\ poller_pc' = "sleep"
    /\ UNCHANGED << identity_vars, active_routes, routes_lock, stop_event,
                    broker_vars, main_pc, delivered, decide_vars, exc, outcome,
                    tally_vars, poller_active, cycle_start_routes, installed,
                    pure_vars >>

\* time.sleep(10)
PollerSleep ==
    /\ ProcessAlive
    /\ poller_pc = "sleep"
    /\ poller_pc' = "loop_test"
    /\ UNCHANGED << identity_vars, active_routes, routes_lock, stop_event,
                    broker_vars, main_pc, delivered, decide_vars, exc, outcome,
                    tally_vars, poller_active, cycle_start_routes, poll_result,
                    installed,
                    pure_vars >>

Next ==
    \/ Start
    \/ Deliver
    \/ ExtractKey
    \/ MainAcquire
    \/ MainRead
    \/ MainRelease
    \/ Dispatch
    \/ Handle
    \/ Ack
    \/ Signal
    \/ ConsumingEnds
    \/ ExceptStop
    \/ PollerLoopTest
    \/ PollerRequest
    \/ PollerAcquire
    \/ PollerInstall
    \/ PollerRelease
    \/ PollerLog
    \/ PollerSleep

Spec == Init /\ [][Next]_vars

\* SpecLive: Spec with both threads scheduled.  The main thread goes on with
\* whatever it is at (the broker delivering and a signal arriving are left to
\* the environment); the poller thread goes on with its loop: its request
\* returns or times out (timeout=5), its sleep ends.
MainProgress ==
    \/ Start
    \/ ExtractKey
    \/ MainAcquire
    \/ MainRead
    \/ MainRelease
    \/ Dispatch
    \/ Handle
    \/ Ack
    \/ ConsumingEnds
    \/ ExceptStop

PollerProgress ==
    \/ PollerLoopTest
    \/ PollerRequest
    \/ PollerAcquire
    \/ PollerInstall
    \/ PollerRelease
    \/ PollerLog
    \/ PollerSleep

SpecLive == Spec /\ WF_vars(MainProgress) /\ WF_vars(PollerProgress)

\* the places where a thread touches self._active_routes
\* line 188: msg_key in self._active_routes
MainReadsRoutes == main_pc = "lock_read"
\* line 125: self._active_routes = active
PollerWritesRoutes == poller_pc = "install"
\* line 127: the field passed to logging.info
PollerReadsRoutes == poller_pc = "log"

(***************************************************************************)
(* The receive/ack cycle                                                   *)
(***************************************************************************)
\* delivery t has been handed to _on_message, and _on_message has left
Finished(t) == t < delivered \/ (t = delivered /\ main_pc \notin InMessage)

\* C1: for every message handed to _on_message, basic_ack is called exactly once
\* for its delivery tag by the time _on_message is left, and not before the
\* finally clause; this is so when the message was accepted and the handler
\* returned, when it was rejected, and when the handler raised.
C1_AckCalledExactlyOnce ==
    \A t \in Tags :
        /\ Finished(t) => ack_calls[t] = 1
        /\ ~Finished(t) => ack_calls[t] = 0
        /\ ( /\ t = delivered
             /\ main_pc \notin InMessage
             /\ outcome \in { "handled", "rejected", "handler_raised" } )
           => ack_calls[t] = 1

\* C1 witness: the second delivery was rejected and acknowledged once, after a
\* first one that was acknowledged once too.
C1_Witness ==
    /\ delivered = 2
    /\ main_pc = "start_consuming"
    /\ outcome = "rejected"
    /\ handled[2] = 0
    /\ channel_open
    /\ ack_calls[1] = 1 /\ ack_calls[2] = 1
    /\ acked[2]

\* C2: when the consumer has come to its end (start() has returned), every
\* message it received has been acknowledged to the broker, whatever the
\* interleaving with a stop signal and whatever the handler did.  Stated for
\* runs in which key extraction raised nothing, so that a violation owes
\* nothing to a raising extractor.
C2_TerminalStateAcknowledged ==
    (main_pc = "exited" /\ outcome # "decide_raised") =>
        \A t \in 1..delivered : acked[t]

\* C3: the connection is never closed while a message is between Received and
\* Acknowledged.
C3_NoTeardownWhileInFlight ==
    main_pc \in InMessage => connection_open

\* C6: after a failed poll cycle the active route set is the set held when the
\* cycle started.
C6_FailedCycleKeepsRoutes ==
    poll_result = "failed" => active_routes = cycle_start_routes

\* C6 witness: a cycle has failed while the table held an installed, non-empty
\* set.
C6_Witness ==
    /\ poll_result = "failed"
    /\ poller_pc = "sleep"
    /\ active_routes = { << "sbx-42" >> }

\* C10: no exception of _extract_routing_key propagates in the main thread.
ExtractionErrors == { "UnicodeDecodeError", "AttributeError" }

C10_ExtractionNeverRaises ==
    /\ exc \notin ExtractionErrors
    /\ outcome # "decide_raised"

(***************************************************************************)
(* The shared route table and its lock                                     *)
(***************************************************************************)
\* C11: the table is replaced as a whole.  Until the poller's assignment it is
\* the set held when the cycle started; from the assignment on, and until the
\* next cycle has a new set ready, it is exactly the set that was installed;
\* and a membership read made under the lock is membership in that whole set.
C11_ReplaceIsAtomic ==
    /\ poller_pc \in { "lock_acquire", "install" } => active_routes = cycle_start_routes
    /\ poller_pc \notin { "lock_acquire", "install" } => active_routes = poller_active
    /\ main_pc = "lock_release" => is_active = InRoutes(msg_key, active_routes)

\* C11 witness: a reader has just found "sbx-42" in the old set {"sbx-42"} while
\* the poller waits for the lock with a different set to install.
C11_Witness ==
    /\ main_pc = "lock_release"
    /\ routes_lock = "main"
    /\ msg_key = Str(<< "sbx-42" >>)
    /\ is_active
    /\ poller_pc = "lock_acquire"
    /\ cycle_start_routes = { << "sbx-42" >> }
    /\ poller_active = { << "sbx-99" >> }

\* C12: the poller holds the lock only around its assignment and the main
\* thread only around its membership read: never during a request, a sleep or
\* handle_message; so a decision that wants the lock while a request is in
\* flight or the poller sleeps finds it free.
C12_LockHeldOnlyForSwapOrRead ==
    /\ routes_lock = "poller" => poller_pc \in { "install", "lock_release" }
    /\ routes_lock = "main" => main_pc \in { "lock_read", "lock_release" }
    /\ (main_pc = "lock_acquire" /\ poller_pc \in { "request", "sleep", "loop_test", "log" })
         => routes_lock = "none"

\* C12 witness: with a request in flight, a decision has taken the lock and
\* found its key in the previously installed set.
C12_Witness ==
    /\ poller_pc = "request"
    /\ main_pc = "lock_release"
    /\ routes_lock = "main"
    /\ is_active
    /\ active_routes = { << "sbx-42" >> }

(***************************************************************************)
(* The life of the poller thread                                           *)
(***************************************************************************)
\* the poller is not running: it was never started, it left its loop, or the
\* process (whose daemon thread it is) has ended
PollerStopped == poller_pc \in { "not_started", "done" } \/ ~ProcessAlive

\* C13: once the stop event is set the poller starts no new request cycle at
\* its loop test, stays out of the loop once it has left it, and eventually is
\* not running any more.
C13_PollerStopsAfterStop ==
    /\ [][ (stop_event /\ poller_pc = "loop_test") => poller_pc' # "request" ]_vars
    /\ [][ poller_pc = "done" => poller_pc' = "done" ]_vars
    /\ stop_event ~> PollerStopped

\* C13 witness: the poller has seen the event and left its loop while the main
\* thread is still at work on a message.
C13_Witness ==
    /\ stop_event
    /\ poller_pc = "done"
    /\ main_pc \in InMessage

\* C14: the poller leaves its loop only when the stop event is set; after a
\* failed cycle its next loop test, with the event not set, starts another
\* request, and that request does come unless a stop is raised first.
C14_FailureDoesNotEndPoller ==
    /\ [](poller_pc = "done" => stop_event)
    /\ [](poll_result = "failed" => poller_pc \in { "sleep", "loop_test", "done" })
    /\ [][ (poll_result = "failed" /\ poller_pc = "loop_test" /\ ~stop_event)
             => poller_pc' \in { "loop_test", "request" } ]_vars
    /\ (poll_result = "failed") ~> (poller_pc = "request" \/ stop_event)

\* C14 witness: a cycle has failed, the sleep is over, and the poller is at its
\* loop test with no stop raised.
C14_Witness ==
    /\ poll_result = "failed"
    /\ poller_pc = "loop_test"
    /\ ~stop_event
    /\ ProcessAlive

\* C15: a sandbox instance never starts the poller: no request is made, the
\* route set stays empty and its lock untouched, and every decision is the
\* comparison of the message's key with the instance's own key.
C15_SandboxNeverPolls ==
    ~is_baseline =>
        /\ poller_pc = "not_started"
        /\ poll_result = "none" /\ ~installed
        /\ active_routes = {} /\ poller_active = {}
        /\ routes_lock = "none"
        /\ main_pc \notin { "lock_acquire", "lock_read", "lock_release" }
        /\ main_pc = "decided" =>
             should = IF msg_key = Str(sandbox_routing_key) THEN "true" ELSE "false"

\* C15 witness: a sandbox instance has consumed two messages, handled the
\* second, and its poller was never started.
C15_Witness ==
    /\ ~is_baseline
    /\ delivered = 2 /\ acked[1] /\ acked[2]
    /\ outcome = "handled" /\ main_pc = "start_consuming"
    /\ poller_pc = "not_started"

\* C16: the route set is empty when the consumer is constructed and stays empty
\* until a poll installs one; until then a baseline instance finds no key in
\* the set, decides to process every message whose key it can read, and
\* skips none.
C16_EmptyUntilFirstInstall ==
    /\ main_pc = "start" => active_routes = {}
    /\ ~installed => active_routes = {}
    /\ (is_baseline /\ ~installed) =>
         /\ main_pc = "lock_release" => ~is_active
         /\ main_pc = "decided" => should = "true"
         /\ outcome # "rejected"

\* C16 witness: the only poll so far has failed, and the baseline is about to
\* handle a message that carries a routing key.
C16_Witness ==
    /\ is_baseline /\ ~installed
    /\ poll_result = "failed"
    /\ main_pc = "handle" /\ should = "true"
    /\ msg_key = Str(<< "sbx-42" >>)

(***************************************************************************)
(* _on_message: the handler's failure and the order of the steps           *)
(***************************************************************************)
\* C17: when handle_message has raised for the delivered message, the error is
\* caught before the acknowledgement, the message is acknowledged, no error
\* leaves _on_message, and unless a stop was requested the loop is ready for
\* the next delivery.
C17_HandlerFailureContained ==
    /\ (outcome = "handler_raised" /\ main_pc = "ack") => exc = "none"
    /\ (outcome = "handler_raised" /\ main_pc \notin { "handle", "ack" }) =>
         /\ acked[delivered]
         /\ exc = "none"
         /\ ~stop_event => (main_pc = "start_consuming" /\ consuming /\ channel_open)

\* the delivered message is before its basic_ack call
BeforeAck == main_pc \in { "extract", "lock_acquire", "lock_read", "lock_release",
                           "decided", "handle", "ack" }

\* the delivered message is before its handler call, if it gets one
BeforeHandler == main_pc \in { "extract", "lock_acquire", "lock_read", "lock_release",
                               "decided", "handle" }

\* C18: for every message the steps come in the order received, decided,
\* handled or skipped, acknowledged: nothing happens to a message before it is
\* delivered, the handler runs only after _should_process returned true and
\* at most once, a message that was decided is past its handler exactly when
\* the decision was true, and basic_ack is called only after the decision and
\* the handler call, if any, are over.
C18_StepsInOrder ==
    /\ \A t \in Tags : handled[t] <= 1 /\ ack_calls[t] <= 1
    /\ \A t \in Tags : t > delivered => (handled[t] = 0 /\ ack_calls[t] = 0)
    /\ BeforeAck => ack_calls[delivered] = 0
    /\ BeforeHandler => handled[delivered] = 0
    /\ main_pc \in { "extract", "lock_acquire", "lock_read", "lock_release" }
         => should = "unset"
    /\ main_pc = "handle" => should = "true"
    /\ (delivered > 0 /\ ~BeforeHandler) =>
         (handled[delivered] = 1 <=> should = "true")
    /\ outcome = "rejected" => (should = "false" /\ handled[delivered] = 0)
    /\ outcome \in { "handled", "handler_raised" } =>
         (should = "true" /\ handled[delivered] = 1)

\* C18 witness: two messages went through, the first was accepted and handled
\* once, the second was decided against and skipped, and each got one basic_ack.
C18_Witness ==
    /\ main_pc = "start_consuming" /\ delivered = 2
    /\ handled[1] = 1 /\ handled[2] = 0
    /\ ack_calls[1] = 1 /\ ack_calls[2] = 1
    /\ acked[1] /\ acked[2]
    /\ outcome = "rejected"

(***************************************************************************)
(* What a successful poll installs                                         *)
(***************************************************************************)
\* the non-empty text routing keys carried by the rules of a response
NonEmptyKeys(resp) ==
    { k \in RouteKeys \cup { <<>> } :
        /\ k # <<>>
        /\ \E i \in 1..Len(resp.rules) : resp.rules[i].routingKey = Str(k) }

\* a response the cycle gets through: a JSON object whose rule list is missing
\* or holds only objects
WellFormed(resp) ==
    \/ resp.kind = "no_rules_field"
    \/ resp.kind = "rules" /\ \A i \in 1..Len(resp.rules) : resp.rules[i].dict

\* C19: a cycle succeeds on exactly the well-formed responses, and after it the
\* active route set is the set of non-empty routing keys of the response's
\* rules: keys of the old set that the response lacks are gone, rules with a
\* missing or empty key add nothing, and a response without rules leaves the
\* empty set.
C19_SuccessfulPollInstallsResponseKeys ==
    phase = "output" =>
        /\ poll_result = "ok" <=> WellFormed(in_response)
        /\ poll_result = "ok" =>
             /\ installed
             /\ active_routes = NonEmptyKeys(in_response)
             /\ \A k \in cycle_start_routes :
                  k \notin NonEmptyKeys(in_response) => k \notin active_routes
             /\ in_response.rules = <<>> => active_routes = {}

\* C19 witness: the set held sbx-42; the response had a rule with an empty key
\* and a rule for sbx-99; the set now holds sbx-99 alone.
C19_Witness ==
    /\ phase = "output" /\ poll_result = "ok"
    /\ cycle_start_routes = { << "sbx-42" >> }
    /\ in_response.kind = "rules"
    /\ in_response.rules = << [dict |-> TRUE, routingKey |-> Str(<<>>)],
                              [dict |-> TRUE, routingKey |-> Str(<< "sbx-99" >>)] >>
    /\ active_routes = { << "sbx-99" >> }

(***************************************************************************)
(* Who touches the route set, and with what lock                           *)
(***************************************************************************)
\* C20: every access to the route set, the poller's and the main thread's,
\* is made by a thread that holds the routes lock.
C20_EveryAccessUnderLock ==
    /\ MainReadsRoutes => routes_lock = "main"
    /\ PollerWritesRoutes => routes_lock = "poller"
    /\ PollerReadsRoutes => routes_lock = "poller"

\* C20 as the code has it: every write of the route set is the poller's
\* install under the lock and the main thread's membership test is under the
\* lock; the poller's read of the field for its log line is made after the
\* lock is released, and finds the set the poller has just installed.
C20_WritesAndDecisionReadsUnderLock ==
    /\ [](MainReadsRoutes => routes_lock = "main")
    /\ [](PollerWritesRoutes => routes_lock = "poller")
    /\ [][ active_routes' # active_routes
             => (PollerWritesRoutes /\ routes_lock = "poller") ]_vars
    /\ [](PollerReadsRoutes =>
            (routes_lock # "poller" /\ active_routes = poller_active))

\* C20 witness: the poller reads the field for its log line while the main
\* thread holds the lock for its membership test.
C20_Witness ==
    /\ PollerReadsRoutes
    /\ MainReadsRoutes /\ routes_lock = "main"
    /\ active_routes = { << "sbx-42" >> }
    /\ msg_key = Str(<< "sbx-42" >>)

(***************************************************************************)
(* A fleet on one message stream                                           *)
(***************************************************************************)
\* the instances that called handle_message on their copy
Handlers == { k \in DOMAIN fleet : fleet[k] = "handled" }

\* C21: once every instance of the fleet has dealt with its copy, exactly one
\* of them has handled the message: the sandbox whose key the extractor returns
\* when that key is live, the baseline for every other message.
C21_ExactlyOneInstanceHandles ==
    phase = "output" /\ fleet # << >> =>
        LET key == _extract_routing_key(in_headers)
            live == key.kind = "str" /\ key.val \in active_routes
        IN  /\ Cardinality(Handlers) = 1
            /\ live => Handlers = { key.val }
            /\ ~live => Handlers = { << >> }

====
